---- MODULE Spec2Model ----
(***************************************************************************)
(* FIDIC Red Book clause parser (src/src/fidic_parser.py).                 *)
(*                                                                         *)
(* A text is a sequence of tokens.  A token is a fragment of the text: a   *)
(* single character (".", " ", "\n", "a"), a word ("shall", "Contractor")  *)
(* or a run of words that one of the regular expressions of the parser     *)
(* matches as a whole ("Clause 1 General Provisions").  Offsets and        *)
(* lengths are counted in tokens, 0-based as in Python.  The numeric       *)
(* limits of the code that are counted in characters (100, 50000, 300,     *)
(* 200, 500, 5000) are scaled down to a few tokens; they are named below.  *)
(***************************************************************************)
EXTENDS Integers, Sequences, FiniteSets, TLC

VARIABLES
    pc,            \* the statement the process is at
    input,         \* the file at input_file: [kind, text]
    content,       \* self.content
    hash_seed,     \* the str hash seed of the running process
    clauses,       \* self.clauses: the nodes in insertion order of the dict
    spans,         \* (clause_num, start_pos, end_pos) of each pass that matched
    idx,           \* position of the running for loop
    output_dir,    \* the output directory exists
    files,         \* the clause files of the output directory: [name, data]
    index_file,    \* the master index file: <<>> or <<index>>
    log,           \* names of the files written by the running process
    run,           \* number of the running process
    first_output,  \* what the first process left in the output directory
    args,          \* arguments of a single call of an annotator
    ret            \* its return value

pvars == <<input, content, hash_seed, clauses, spans, idx, output_dir, files,
           index_file, log, run, first_output>>
fvars == <<args, ret>>
vars == <<pc, input, content, hash_seed, clauses, spans, idx, output_dir, files,
          index_file, log, run, first_output, args, ret>>

-----------------------------------------------------------------------------
(* Bounds of the model. *)

\* longest document of the pipeline specification, in tokens
MaxDocLen == 4
\* number of entries of the clause lexicon the parse loop walks (20 in the code)
NumClauses == 2
\* start_pos + 100: the offset the search for the next heading starts from
HeadingSkip == 2
\* start_pos + 50000: the fallback window of a clause span
FallbackWindow == 3
\* create_summary's default max_length (300)
SummaryMax == 3
\* sentence.strip()[:200]
DescriptionMax == 4
\* text_lower[:500]
CategoryWindow == 2
\* content[:5000]
FullTextMax == 3
\* number of times the pipeline is run on the same input and output directory
MaxRuns == 2
\* longest text handed to extract_obligations, in tokens
MaxObligationText == 6
\* longest text handed to create_summary, in characters
MaxSummaryText == 7
\* longest title and longest text handed to determine_category, in tokens
MaxTitle == 2
MaxCategoryText == 3
\* largest second component of a clause number handed to determine_importance
MaxSubClause == 2
\* largest number of obligations handed to determine_importance
MaxObligations == 5
\* longest span around the sentence of the commencement scenario, in tokens
MaxScenarioText == 4

-----------------------------------------------------------------------------
(* Python helpers on sequences. *)

Min(a, b) == IF a < b THEN a ELSE b

\* s[a:b] with 0 <= a
Slice(s, a, b) == SubSeq(s, a + 1, Min(b, Len(s)))

\* s[:n]
Prefix(s, n) == Slice(s, 0, n)

Range(s) == {s[i] : i \in 1..Len(s)}

\* \s of the regular expressions and the characters str.strip() removes
Whitespace == {" ", "\n"}

RECURSIVE lstrip(_)
lstrip(s) == IF s # <<>> /\ Head(s) \in Whitespace THEN lstrip(Tail(s)) ELSE s

RECURSIVE rstrip(_)
rstrip(s) ==
    IF s # <<>> /\ s[Len(s)] \in Whitespace
    THEN rstrip(SubSeq(s, 1, Len(s) - 1)) ELSE s

strip(s) == rstrip(lstrip(s))

\* tokens that hold no word character
NonWord == {" ", "\n", ".", "!", "?", ";", ","}

\* the words of a token, in order; adjacent tokens that both hold words are
\* written without a separator, so their edge words run together
Words(tok) ==
    CASE tok \in NonWord -> <<>>
      [] tok = "Clause 1 General Provisions" -> <<"Clause", "1", "General", "Provisions">>
      [] tok = "Clause 2 The Employer" -> <<"Clause", "2", "The", "Employer">>
      [] tok = "Clause 3 The Engineer" -> <<"Clause", "3", "The", "Engineer">>
      [] tok = "under Clause 2 of" -> <<"under", "Clause", "2", "of">>
      [] tok = "under Clause 3 of" -> <<"under", "Clause", "3", "of">>
      [] tok = "Contractor shall" -> <<"Contractor", "shall">>
      [] tok = "Employer may" -> <<"Employer", "may">>
      [] tok = "The Contractor shall commence the Works" ->
            <<"The", "Contractor", "shall", "commence", "the", "Works">>
      [] OTHER -> <<tok>>

\* str.lower() of a word
Lower(w) ==
    CASE w = "Payment" -> "payment"
      [] w = "Dispute" -> "dispute"
      [] w = "Works" -> "works"
      [] w = "Notice" -> "notice"
      [] w = "The" -> "the"
      [] w = "Shall" -> "shall"
      [] w = "May" -> "may"
      [] w = "If" -> "if"
      [] OTHER -> w

\* re.search(r'\b(w)\b', text) for a word w in ws; lower = TRUE is re.IGNORECASE
WordSearch(text, ws, lower) ==
    \E i \in 1..Len(text) :
        \E j \in 1..Len(Words(text[i])) :
            /\ (IF lower THEN Lower(Words(text[i])[j]) ELSE Words(text[i])[j]) \in ws
            /\ j > 1 \/ i = 1 \/ Words(text[i - 1]) = <<>>
            /\ j < Len(Words(text[i])) \/ i = Len(text) \/ Words(text[i + 1]) = <<>>

-----------------------------------------------------------------------------
(* The annotators. *)

\* Optional[str] = None of a condition (a matched condition is never empty)
None == <<>>

\* the values of PartyType in sorted() order
PartyValues == <<"Contractor", "DAB", "Employer", "Engineer", "Subcontractor">>

\* party_patterns: the words that \b(X|X's)\b matches (X's matches through X);
\* the phrase "Dispute Adjudication Board" is in no text of the model
party_patterns(party) == {party}

extract_parties(text) ==
    SelectSeq(PartyValues, LAMBDA p : WordSearch(text, party_patterns(p), FALSE))

\* the values of ActionType in the order of the obligation_patterns dict
ActionValues == <<"shall", "must", "may", "will">>

\* [.!?]
Terminators == {".", "!", "?"}

\* offset just past the run of whitespace that starts at i
RECURSIVE SkipWhitespace(_, _)
SkipWhitespace(s, i) ==
    IF i <= Len(s) /\ s[i] \in Whitespace THEN SkipWhitespace(s, i + 1) ELSE i

\* re.split(r'[.!?]\s+', s)
RECURSIVE SplitSentences(_)
SplitSentences(s) ==
    LET hits == {i \in 1..(Len(s) - 1) :
                    s[i] \in Terminators /\ s[i + 1] \in Whitespace}
    IN  IF hits = {} THEN <<s>>
        ELSE LET i == CHOOSE x \in hits : \A y \in hits : x <= y
             IN  <<SubSeq(s, 1, i - 1)>>
                 \o SplitSentences(SubSeq(s, SkipWhitespace(s, i + 1), Len(s)))

\* the one-word alternatives of (if|unless|where|when|provided that)
ConditionMarkers == {"if", "unless", "where", "when"}

\* a marker stands at i between word boundaries
MarkerAt(s, i) ==
    /\ Words(s[i]) # <<>>
    /\ Len(Words(s[i])) = 1
    /\ Lower(s[i]) \in ConditionMarkers
    /\ i = 1 \/ Words(s[i - 1]) = <<>>
    /\ i = Len(s) \/ Words(s[i + 1]) = <<>>

\* index of the last token of (.+?)(?:[.;]|$) for the marker at i, 0 if the
\* pattern does not match there ('.' matches no newline, '$' matches at the
\* end and before a final newline)
ConditionEnd(s, i) ==
    LET n == Len(s)
        plain(a, b) == \A m \in a..b : s[m] # "\n"
        stops == {k \in (i + 2)..n : s[k] \in {".", ";"} /\ plain(i + 1, k - 1)}
    IN  IF stops # {} THEN CHOOSE k \in stops : \A y \in stops : k <= y
        ELSE IF i < n /\ plain(i + 1, n) THEN n
        ELSE IF i + 1 < n /\ s[n] = "\n" /\ plain(i + 1, n - 1) THEN n - 1
        ELSE 0

\* condition_match.group(0).strip(), or None
ExtractCondition(s) ==
    LET starts == {i \in 1..Len(s) : MarkerAt(s, i) /\ ConditionEnd(s, i) # 0}
    IN  IF starts = {} THEN None
        ELSE LET i == CHOOSE x \in starts : \A y \in starts : x <= y
             IN  strip(SubSeq(s, i, ConditionEnd(s, i)))

\* the first action whose pattern is found in the sentence, "" if none
ActionOf(sentence) ==
    LET found == SelectSeq(ActionValues,
                           LAMBDA a : WordSearch(sentence, {a}, TRUE))
    IN  IF found = <<>> THEN "" ELSE found[1]

\* the records one sentence contributes (one pass of the for loop), with only
\* the first detected party kept
SentenceObligationsFirstParty(sentence) ==
    LET parties == extract_parties(sentence)
    IN  IF ActionOf(sentence) = "" \/ parties = <<>> THEN <<>>
        ELSE <<[party |-> parties[1],
                action |-> ActionOf(sentence),
                description |-> Prefix(strip(sentence), DescriptionMax),
                condition |-> ExtractCondition(sentence)]>>

\* the records one sentence contributes (one pass of the for loop)
SentenceObligations(sentence) ==
    LET parties == extract_parties(sentence)
    IN  IF ActionOf(sentence) = "" \/ parties = <<>> THEN <<>>
        ELSE [k \in 1..Len(parties) |->
                [party |-> parties[k],
                 action |-> ActionOf(sentence),
                 description |-> Prefix(strip(sentence), DescriptionMax),
                 condition |-> ExtractCondition(sentence)]]

RECURSIVE ConcatObligations(_)
ConcatObligations(sentences) ==
    IF sentences = <<>> THEN <<>>
    ELSE SentenceObligations(Head(sentences)) \o ConcatObligations(Tail(sentences))

extract_obligations(text) == ConcatObligations(SplitSentences(text))

\* a clause number is the sequence of its dot-separated components ("14.2" is
\* <<14, 2>>); a < b in the order of sorted() on the strings, which for
\* one-digit components is the order of the numbers
RECURSIVE RefLess(_, _)
RefLess(a, b) ==
    IF a = <<>> THEN b # <<>>
    ELSE IF b = <<>> THEN FALSE
    ELSE IF Head(a) # Head(b) THEN Head(a) < Head(b)
    ELSE RefLess(Tail(a), Tail(b))

\* sorted(list(S)) for a set of clause numbers
RECURSIVE SortedRefs(_)
SortedRefs(S) ==
    IF S = {} THEN <<>>
    ELSE LET m == CHOOSE x \in S : \A y \in S \ {x} : RefLess(x, y)
         IN  <<m>> \o SortedRefs(S \ {m})

\* clause_ref_pattern.finditer on one token: the numbers captured by
\* (Sub-)?Clause\s+([\d.]+)|clause\s+([\d.]+), re.IGNORECASE
ClauseRefs(tok) ==
    CASE tok = "Clause 1 General Provisions" -> <<<<1>>>>
      [] tok = "Clause 2 The Employer" -> <<<<2>>>>
      [] tok = "Clause 3 The Engineer" -> <<<<3>>>>
      [] tok = "under Clause 2 of" -> <<<<2>>>>
      [] tok = "under Clause 3 of" -> <<<<3>>>>
      [] OTHER -> <<>>

extract_related_clauses(text) ==
    SortedRefs(UNION {Range(ClauseRefs(text[i])) : i \in 1..Len(text)})

\* external_ref_pattern.finditer on one token: the texts matched by
\* (Appendix to Tender|Specification|Drawings?|Contract|Bill of Quantities|Schedule)
ExternalMatches(tok) ==
    CASE tok \in {"Contract", "Contractor"} -> <<"Contract">>
      [] tok = "Drawings" -> <<"Drawings">>
      [] tok = "Specification" -> <<"Specification">>
      [] OTHER -> <<>>

RECURSIVE external_refs(_)
external_refs(text) ==
    IF text = <<>> THEN <<>>
    ELSE ExternalMatches(Head(text)) \o external_refs(Tail(text))

\* the matched texts of the model's documents
ExternalTexts == {"Contract", "Drawings"}

\* the orders a set of str can be iterated in: one per hash seed of the
\* process (str hashes are randomised per process)
HashSeeds ==
    {s \in [1..Cardinality(ExternalTexts) -> ExternalTexts] :
        Range(s) = ExternalTexts}

\* list(set(xs)) under the hash seed of the process
ListOfSet(xs, seed) == SelectSeq(seed, LAMBDA x : x \in Range(xs))

-----------------------------------------------------------------------------
(* The classifiers and the summarizer. *)

FinancialWords == {"payment", "price", "cost", "money", "financial", "currency", "advance"}
LegalWords == {"law", "dispute", "arbitration", "termination", "liability", "indemnit"}
TechnicalWords == {"test", "completion", "works", "design", "construction", "materials", "plant"}
ProceduralWords == {"procedure", "notice", "claim", "time", "delay", "suspension"}

\* the bucket words w with  w in tok.lower()  (substring test); no bucket
\* word straddles two tokens of the model
Substrings(tok) ==
    CASE tok \in {"Payment", "Prepayment"} -> {"payment"}
      [] tok = "Dispute" -> {"dispute"}
      [] tok = "Works" -> {"works"}
      [] tok = "Notice" -> {"notice"}
      [] tok = "Plant, Materials and Workmanship" -> {"plant", "materials"}
      [] tok = "Commencement, Delays and Suspension" -> {"delay", "suspension"}
      [] tok = "Tests on Completion" -> {"test", "completion"}
      [] tok = "Defects Liability" -> {"liability"}
      [] tok = "Contract Price and Payment" -> {"price", "payment"}
      [] tok = "Termination by Employer" -> {"termination"}
      [] tok = "Suspension and Termination by Contractor" -> {"suspension", "termination"}
      [] tok = "Claims, Disputes and Arbitration" -> {"claim", "dispute", "arbitration"}
      [] OTHER -> {}

\* any(word in title_lower or word in text_lower[:500] for word in bucket)
AnyWord(bucket, title, text) ==
    \E word \in bucket :
        \/ \E i \in 1..Len(title) : word \in Substrings(title[i])
        \/ \E i \in 1..Len(Prefix(text, CategoryWindow)) : word \in Substrings(text[i])

determine_category_legal_first(title, text) ==
    IF AnyWord(LegalWords, title, text) THEN "legal"
    ELSE IF AnyWord(FinancialWords, title, text) THEN "financial"
    ELSE IF AnyWord(TechnicalWords, title, text) THEN "technical"
    ELSE IF AnyWord(ProceduralWords, title, text) THEN "procedural"
    ELSE "administrative"

determine_category(title, text) ==
    IF AnyWord(FinancialWords, title, text) THEN "financial"
    ELSE IF AnyWord(LegalWords, title, text) THEN "legal"
    ELSE IF AnyWord(TechnicalWords, title, text) THEN "technical"
    ELSE IF AnyWord(ProceduralWords, title, text) THEN "procedural"
    ELSE "administrative"

key_clauses == {4, 8, 10, 11, 14, 15, 16, 20}

determine_importance_ge(clause_number, obligations) ==
    IF Head(clause_number) \in key_clauses THEN "high"
    ELSE IF Len(obligations) >= 3 THEN "high"
    ELSE IF Len(obligations) > 1 THEN "medium"
    ELSE "low"

\* clause_number.split('.')[0] is Head(clause_number)
determine_importance(clause_number, obligations) ==
    IF Head(clause_number) \in key_clauses THEN "high"
    ELSE IF Len(obligations) > 3 THEN "high"
    ELSE IF Len(obligations) > 1 THEN "medium"
    ELSE "low"

\* the ellipsis marker "..."
Ellipsis == <<".", ".", ".">>

\* s.split('\n\n')[0]
FirstParagraph(s) ==
    LET breaks == {i \in 1..(Len(s) - 1) : s[i] = "\n" /\ s[i + 1] = "\n"}
    IN  IF breaks = {} THEN s
        ELSE SubSeq(s, 1, (CHOOSE x \in breaks : \A y \in breaks : x <= y) - 1)

\* the for loop over the sentences, with the test of the loop on the
\* accumulated text alone
RECURSIVE AccumulateNoSentenceLen(_, _, _)
AccumulateNoSentenceLen(sentences, summary, max_length) ==
    IF sentences = <<>> THEN summary
    ELSE IF Len(summary) > max_length THEN summary
    ELSE AccumulateNoSentenceLen(Tail(sentences),
                                 summary \o Head(sentences) \o <<".", " ">>, max_length)

\* the for loop over the sentences: summary += sentence + ". " until the
\* next sentence would exceed the bound
RECURSIVE Accumulate(_, _, _)
Accumulate(sentences, summary, max_length) ==
    IF sentences = <<>> THEN summary
    ELSE IF Len(summary) + Len(Head(sentences)) > max_length THEN summary
    ELSE Accumulate(Tail(sentences),
                    summary \o Head(sentences) \o <<".", " ">>, max_length)

\* create_summary that cuts a first paragraph longer than the bound without
\* looking for sentences
create_summary_truncate_only(text, max_length) ==
    LET first_para == strip(FirstParagraph(strip(text)))
    IN  IF Len(first_para) <= max_length THEN first_para
        ELSE Prefix(first_para, max_length) \o Ellipsis

\* str.split always yields at least one paragraph, so the last return of the
\* function is never reached
create_summary(text, max_length) ==
    LET first_para == strip(FirstParagraph(strip(text)))
        summary == strip(Accumulate(SplitSentences(first_para), <<>>, max_length))
    IN  IF Len(first_para) <= max_length THEN first_para
        ELSE IF summary # <<>> THEN summary
        ELSE Prefix(first_para, max_length) \o Ellipsis

-----------------------------------------------------------------------------
(* Clause nodes, the boundary locator and the serializer. *)

\* clause_titles, in the insertion order of the dict
clause_titles ==
    <<"General Provisions", "The Employer", "The Engineer", "The Contractor",
      "Nominated Subcontractors", "Staff and Labour",
      "Plant, Materials and Workmanship", "Commencement, Delays and Suspension",
      "Tests on Completion", "Employer's Taking Over", "Defects Liability",
      "Measurement and Evaluation", "Variations and Adjustments",
      "Contract Price and Payment", "Termination by Employer",
      "Suspension and Termination by Contractor", "Risk and Responsibility",
      "Insurance", "Force Majeure", "Claims, Disputes and Arbitration">>

\* re.search of (?:Clause|CLAUSE)\s+n\s+<title> matches inside the token
HeadingIn(tok, n) ==
    \/ n = 1 /\ tok = "Clause 1 General Provisions"
    \/ n = 2 /\ tok = "Clause 2 The Employer"
    \/ n = 3 /\ tok = "Clause 3 The Engineer"

\* re.search of (?:Clause|CLAUSE)\s+n\s+ matches inside the token
NextPatternIn(tok, n) ==
    \/ n = 1 /\ tok = "Clause 1 General Provisions"
    \/ n = 2 /\ tok \in {"Clause 2 The Employer", "under Clause 2 of"}
    \/ n = 3 /\ tok \in {"Clause 3 The Engineer", "under Clause 3 of"}

\* offset of the first element of a set of token indexes, -1 for an empty set
FirstOffset(hits) ==
    IF hits = {} THEN -1
    ELSE (CHOOSE x \in hits : \A y \in hits : x <= y) - 1

\* match.start() of re.search(pattern, s) for the heading of clause n, -1
\* for no match
SearchHeading(s, n) == FirstOffset({i \in 1..Len(s) : HeadingIn(s[i], n)})

\* match.start() of re.search(next_pattern, s) for clause number n, -1 for
\* no match
SearchNext(s, n) == FirstOffset({i \in 1..Len(s) : NextPatternIn(s[i], n)})

\* the end of the span of clause n that starts at start_pos
ClauseEnd(text, n, start_pos) ==
    LET next_match == SearchNext(Slice(text, start_pos + HeadingSkip, Len(text)), n + 1)
    IN  IF next_match # -1 THEN start_pos + HeadingSkip + next_match
        ELSE Min(start_pos + FallbackWindow, Len(text))

\* extract_clause_content
extract_clause_content(text, start_pos, end_pos) ==
    strip(Slice(text, start_pos, end_pos))

\* parse_clause_section with parent = None; the keywords field, which no
\* operation reads, is left out
parse_clause_section(clause_num, title, text, seed) ==
    LET obligations == extract_obligations(text)
        related_clauses == extract_related_clauses(text)
    IN  [clauseId |-> clause_num,
         clauseNumber |-> clause_num,
         title |-> title,
         parentClause |-> <<>>,
         level |-> Len(clause_num),
         summary |-> create_summary(text, SummaryMax),
         fullText |-> Prefix(text, FullTextMax),
         obligations |-> obligations,
         relatedClauses |-> related_clauses,
         parties |-> extract_parties(text),
         metadata |-> [section |-> "General Conditions",
                       importance |-> determine_importance(clause_num, obligations),
                       category |-> determine_category(<<title>>, text),
                       hasSubClauses |-> FALSE,
                       references |-> [crossReferences |-> related_clauses,
                                       externalDocs |-> ListOfSet(external_refs(text), seed)]],
         subClauses |-> <<>>]

\* ClauseNode.to_dict: parentClause is emitted only when it is set
to_dict(node) ==
    IF node.parentClause # <<>> THEN node
    ELSE [f \in DOMAIN node \ {"parentClause"} |-> node[f]]

\* title.lower().replace(' ', '-')
Slug(title) ==
    CASE title = "General Provisions" -> "general-provisions"
      [] title = "The Employer" -> "the-employer"
      [] title = "The Engineer" -> "the-engineer"
      [] title = "The Contractor" -> "the-contractor"
      [] title = "Nominated Subcontractors" -> "nominated-subcontractors"
      [] title = "Staff and Labour" -> "staff-and-labour"
      [] title = "Plant, Materials and Workmanship" -> "plant,-materials-and-workmanship"
      [] title = "Commencement, Delays and Suspension" -> "commencement,-delays-and-suspension"
      [] title = "Tests on Completion" -> "tests-on-completion"
      [] title = "Employer's Taking Over" -> "employer's-taking-over"
      [] title = "Defects Liability" -> "defects-liability"
      [] title = "Measurement and Evaluation" -> "measurement-and-evaluation"
      [] title = "Variations and Adjustments" -> "variations-and-adjustments"
      [] title = "Contract Price and Payment" -> "contract-price-and-payment"
      [] title = "Termination by Employer" -> "termination-by-employer"
      [] title = "Suspension and Termination by Contractor" -> "suspension-and-termination-by-contractor"
      [] title = "Risk and Responsibility" -> "risk-and-responsibility"
      [] title = "Insurance" -> "insurance"
      [] title = "Force Majeure" -> "force-majeure"
      [] title = "Claims, Disputes and Arbitration" -> "claims,-disputes-and-arbitration"

\* a file name built from the level of the clause instead of its number
\* and title
FileNameByLevel(clause_id, title) ==
    <<"clause", Len(clause_id) \div 10, Len(clause_id) % 10, "", ".json">>

\* f"clause-{clause_id.replace('.', '-').zfill(2)}-{slug}.json" for a
\* top-level clause_id: the two digits of the zero-padded number, then the slug
FileName(clause_id, title) ==
    <<"clause", Head(clause_id) \div 10, Head(clause_id) % 10, Slug(title), ".json">>

\* the index dict of generate_master_index
MasterIndex(nodes) ==
    [document |-> "FIDIC Red Book 1999",
     fullTitle |-> "Conditions of Contract for Construction",
     edition |-> "First Edition 1999",
     isbn |-> "2-88432-022-9",
     totalClauses |-> Len(nodes),
     clauses |-> [i \in 1..Len(nodes) |->
                    [clauseId |-> nodes[i].clauseId,
                     title |-> nodes[i].title,
                     level |-> nodes[i].level,
                     hasSubClauses |-> nodes[i].metadata.hasSubClauses]]]

IndexName == <<"fidic-red-book-index.json">>

-----------------------------------------------------------------------------
(* The pipeline: main() run on an input file, and run again. *)

\* the fragments a document is made of
DocTokens ==
    {"Clause 1 General Provisions", "Clause 2 The Employer", "under Clause 2 of",
     "Contract", "Drawings", " "}

Docs == UNION {[1..n -> DocTokens] : n \in 0..MaxDocLen}

Inputs ==
    {[kind |-> k, text |-> <<>>] : k \in {"missing", "undecodable"}}
    \cup {[kind |-> "ok", text |-> d] : d \in Docs}

\* load_content with the error of open() or read() swallowed
load_content_ignore_errors(inp) == [raised |-> FALSE, content |-> inp.text]

\* load_content: open() raises for a missing path, read() for bytes that are
\* not UTF-8
load_content(inp) ==
    IF inp.kind = "ok" THEN [raised |-> FALSE, content |-> inp.text]
    ELSE [raised |-> TRUE, content |-> <<>>]

\* one pass of the loop of parse_general_conditions that stores a node for
\* a clause whose heading is not found too
ClauseStepPlaceholder(nodes, n, text, seed) ==
    LET start_pos == SearchHeading(text, n)
    IN  Append(nodes,
               parse_clause_section(<<n>>, clause_titles[n],
                   IF start_pos = -1 THEN <<>>
                   ELSE extract_clause_content(text, start_pos,
                                               ClauseEnd(text, n, start_pos)),
                   seed))

\* one pass of the loop of parse_general_conditions that keeps the nodes in
\* the order their headings occur in the document
ClauseStepScanOrder(nodes, n, text, seed) ==
    LET start_pos == SearchHeading(text, n)
        node == parse_clause_section(<<n>>, clause_titles[n],
                    extract_clause_content(text, start_pos,
                                           ClauseEnd(text, n, start_pos)),
                    seed)
        before == SelectSeq(nodes,
                      LAMBDA x : SearchHeading(text, Head(x.clauseId)) < start_pos)
        after == SelectSeq(nodes,
                      LAMBDA x : SearchHeading(text, Head(x.clauseId)) >= start_pos)
    IN  IF start_pos # -1 THEN before \o <<node>> \o after ELSE nodes

\* one pass of the loop of parse_general_conditions: the dict after it
ClauseStep(nodes, n, text, seed) ==
    LET start_pos == SearchHeading(text, n)
    IN  IF start_pos # -1
        THEN Append(nodes,
                    parse_clause_section(<<n>>, clause_titles[n],
                        extract_clause_content(text, start_pos,
                                               ClauseEnd(text, n, start_pos)),
                        seed))
        ELSE nodes

Init ==
    /\ pc = "main"
    /\ input \in Inputs
    /\ hash_seed \in HashSeeds
    /\ content = <<>>
    /\ clauses = <<>>
    /\ spans = <<>>
    /\ idx = 0
    /\ output_dir = FALSE
    /\ files = {}
    /\ index_file = <<>>
    /\ log = <<>>
    /\ run = 1
    /\ first_output = [files |-> {}, index |-> <<>>]
    /\ args = <<>>
    /\ ret = <<>>

\* parse(): load_content; an exception leaves main() before any other call
LoadContent ==
    /\ pc = "main"
    /\ LET r == load_content(input)
       IN  IF r.raised
           THEN /\ pc' = "aborted"
                /\ UNCHANGED <<content, idx>>
           ELSE /\ pc' = "parse"
                /\ content' = r.content
                /\ idx' = 1
    /\ UNCHANGED <<input, hash_seed, clauses, spans, output_dir, files,
                   index_file, log, run, first_output, args, ret>>

\* one pass of the for loop of parse_general_conditions
ParseClause ==
    /\ pc = "parse"
    /\ idx <= NumClauses
    /\ clauses' = ClauseStep(clauses, idx, content, hash_seed)
    /\ LET start_pos == SearchHeading(content, idx)
       IN  spans' = IF start_pos = -1 THEN spans
                    ELSE Append(spans, [clause_num |-> idx,
                                        start_pos |-> start_pos,
                                        end_pos |-> ClauseEnd(content, idx, start_pos)])
    /\ idx' = idx + 1
    /\ pc' = IF idx = NumClauses THEN "generate" ELSE "parse"
    /\ UNCHANGED <<input, content, hash_seed, output_dir, files, index_file,
                   log, run, first_output, args, ret>>

\* generate_json_files up to its loop: output_path.mkdir(exist_ok=True)
MakeOutputDir ==
    /\ pc = "generate"
    /\ output_dir' = TRUE
    /\ idx' = 1
    /\ pc' = "write"
    /\ UNCHANGED <<input, content, hash_seed, clauses, spans, files, index_file,
                   log, run, first_output, args, ret>>

\* one pass of the for loop of generate_json_files
WriteClauseFile ==
    /\ pc = "write"
    /\ idx <= Len(clauses)
    /\ LET name == FileName(clauses[idx].clauseId, clauses[idx].title)
       IN  /\ files' = {f \in files : f.name # name}
                       \cup {[name |-> name, data |-> to_dict(clauses[idx])]}
           /\ log' = Append(log, name)
    /\ idx' = idx + 1
    /\ UNCHANGED <<pc, input, content, hash_seed, clauses, spans, output_dir,
                   index_file, run, first_output, args, ret>>

\* generate_master_index, called when the loop of generate_json_files is over
GenerateMasterIndex ==
    /\ pc = "write"
    /\ idx > Len(clauses)
    /\ index_file' = <<MasterIndex(clauses)>>
    /\ log' = Append(log, IndexName)
    /\ pc' = "done"
    /\ UNCHANGED <<input, content, hash_seed, clauses, spans, idx, output_dir,
                   files, run, first_output, args, ret>>

\* main() is run again on the same input file and output directory, in a
\* new process
Rerun ==
    /\ pc = "done"
    /\ run < MaxRuns
    /\ run' = run + 1
    /\ first_output' = IF run = 1 THEN [files |-> files, index |-> index_file]
                       ELSE first_output
    /\ hash_seed' \in HashSeeds
    /\ pc' = "main"
    /\ content' = <<>>
    /\ clauses' = <<>>
    /\ spans' = <<>>
    /\ idx' = 0
    /\ log' = <<>>
    /\ UNCHANGED <<input, output_dir, files, index_file, args, ret>>

Next ==
    \/ LoadContent
    \/ ParseClause
    \/ MakeOutputDir
    \/ WriteClauseFile
    \/ GenerateMasterIndex
    \/ Rerun

Spec == Init /\ [][Next]_vars

-----------------------------------------------------------------------------
(* Properties of the pipeline. *)

\* the heading 'Clause <n> <title>' occurs in the loaded document
HeadingPresent(n) == \E i \in 1..Len(content) : HeadingIn(content[i], n)

\* the clause files written by the running process
WrittenClauseFiles == {log[i] : i \in 1..Len(log)} \ {IndexName}

\* C1: no node of the collection lists its own clauseId among its
\* relatedClauses.
C1_NoSelfReference ==
    \A i \in 1..Len(clauses) :
        clauses[i].clauseId \notin Range(clauses[i].relatedClauses)

\* C2: when the input path does not exist or is not UTF-8 text, the run
\* aborts in load_content and nothing is written: no output directory, no
\* clause file, no master index.
C2_AbortBeforeOutput ==
    input.kind # "ok" =>
        /\ pc \in {"main", "aborted"}
        /\ output_dir = FALSE
        /\ files = {}
        /\ index_file = <<>>
        /\ log = <<>>

C2_Witness == pc = "aborted" /\ input.kind \in {"missing", "undecodable"}

\* C3: a readable document never aborts the run, and a completed run holds
\* exactly the clauses whose heading is present: in the collection, among
\* the clause files it wrote and among the entries of the master index.
C3_MissingClauseNonFatal ==
    /\ input.kind = "ok" => pc # "aborted"
    /\ pc = "done" =>
        LET found == {n \in 1..NumClauses : HeadingPresent(n)}
            index == index_file[1]
        IN  /\ {clauses[i].clauseId : i \in 1..Len(clauses)} = {<<n>> : n \in found}
            /\ Len(clauses) = Cardinality(found)
            /\ WrittenClauseFiles = {FileName(<<n>>, clause_titles[n]) : n \in found}
            /\ \A n \in found :
                 \E f \in files : /\ f.name = FileName(<<n>>, clause_titles[n])
                                  /\ f.data.clauseId = <<n>>
            /\ {index.clauses[i].clauseId : i \in 1..Len(index.clauses)}
                 = {<<n>> : n \in found}
            /\ index.totalClauses = Cardinality(found)

C3_Witness ==
    /\ pc = "done"
    /\ \E n \in 1..NumClauses : HeadingPresent(n)
    /\ \E n \in 1..NumClauses : ~HeadingPresent(n)

\* C4: when the heading of clause n is found at start_pos and the heading of
\* clause n+1 is absent, the span of clause n ends at
\* min(start_pos + 50000, len(content)), and clause n+1 is in neither the
\* collection nor the master index.
C4_FallbackWindow ==
    /\ \A i \in 1..Len(spans) :
         ~HeadingPresent(spans[i].clause_num + 1) =>
            spans[i].end_pos = Min(spans[i].start_pos + FallbackWindow, Len(content))
    /\ pc = "done" =>
         \A n \in 1..NumClauses :
            ~HeadingPresent(n) =>
                /\ \A i \in 1..Len(clauses) : clauses[i].clauseId # <<n>>
                /\ \A i \in 1..Len(index_file[1].clauses) :
                      index_file[1].clauses[i].clauseId # <<n>>

\* C5: a second run on the same input and output directory leaves every
\* clause file and the master index as the first run left them.
C5_Idempotent ==
    (pc = "done" /\ run > 1) =>
        /\ files = first_output.files
        /\ index_file = first_output.index

\* ascending order of str on the matched texts
StrRank(x) ==
    CASE x = "Contract" -> 1
      [] x = "Drawings" -> 2
      [] x = "Specification" -> 3

\* C10: the externalDocs of every node are the texts matched in its span,
\* each once, in ascending order.
C10_ExternalDocsSorted ==
    \A i \in 1..Len(clauses) :
        LET docs == clauses[i].metadata.references.externalDocs
            span == extract_clause_content(content, spans[i].start_pos, spans[i].end_pos)
        IN  /\ Range(docs) = UNION {Range(ExternalMatches(span[k])) : k \in 1..Len(span)}
            /\ \A a, b \in 1..Len(docs) : a < b => StrRank(docs[a]) < StrRank(docs[b])

-----------------------------------------------------------------------------
(* Single calls of the annotators, on every text up to a bound. *)

\* the pipeline stands still while one function is called
Idle ==
    /\ input = [kind |-> "missing", text |-> <<>>]
    /\ hash_seed = <<>>
    /\ content = <<>>
    /\ clauses = <<>>
    /\ spans = <<>>
    /\ idx = 0
    /\ output_dir = FALSE
    /\ files = {}
    /\ index_file = <<>>
    /\ log = <<>>
    /\ run = 1
    /\ first_output = [files |-> {}, index |-> <<>>]

TextsOver(tokens, n) == UNION {[1..k -> tokens] : k \in 0..n}

ObligationTokens == {"Contractor shall", "Employer may", "Engineer", "if", ".", " "}

InitObligations ==
    /\ Idle
    /\ pc = "extract_obligations"
    /\ args \in [text : TextsOver(ObligationTokens, MaxObligationText)]
    /\ ret = <<>>

ExtractObligations ==
    /\ pc = "extract_obligations"
    /\ ret' = extract_obligations(args.text)
    /\ pc' = "returned"
    /\ UNCHANGED <<args, pvars>>

SpecObligations == InitObligations /\ [][ExtractObligations]_vars

\* the sentence holds a modality keyword
HasModality(sentence) == \E a \in Range(ActionValues) : WordSearch(sentence, {a}, TRUE)

\* the parties detected in the sentence
DetectedParties(sentence) ==
    {p \in Range(PartyValues) : WordSearch(sentence, {p}, FALSE)}

\* number of records the claim grants the sentence
RecordsDue(sentence) ==
    IF HasModality(sentence) THEN Cardinality(DetectedParties(sentence)) ELSE 0

RECURSIVE RecordsDueBefore(_, _)
RecordsDueBefore(sentences, i) ==
    IF i <= 1 THEN 0
    ELSE RecordsDueBefore(sentences, i - 1) + RecordsDue(sentences[i - 1])

\* C6: every sentence with a modality keyword and k >= 1 detected parties
\* yields exactly k records, with pairwise distinct parties and the same
\* action, condition and description; every other sentence yields none; the
\* records follow the order of the sentences.
C6_OneRecordPerParty ==
    pc = "returned" =>
        LET sentences == SplitSentences(args.text)
            n == Len(sentences)
        IN  /\ Len(ret) = RecordsDueBefore(sentences, n + 1)
            /\ \A i \in 1..n :
                 LET first == RecordsDueBefore(sentences, i) + 1
                     last == RecordsDueBefore(sentences, i + 1)
                 IN  \A a, b \in first..last :
                        /\ ret[a].party \in DetectedParties(sentences[i])
                        /\ ret[a].description = Prefix(strip(sentences[i]), DescriptionMax)
                        /\ ret[a].action = ret[b].action
                        /\ ret[a].condition = ret[b].condition
                        /\ ret[a].description = ret[b].description
                        /\ a # b => ret[a].party # ret[b].party

\* two sentences yield records, one of them for two parties
C6_Witness ==
    /\ pc = "returned"
    /\ LET sentences == SplitSentences(args.text)
       IN  /\ \E i \in 1..Len(sentences) : RecordsDue(sentences[i]) = 2
           /\ \E i, j \in 1..Len(sentences) :
                 i # j /\ RecordsDue(sentences[i]) > 0 /\ RecordsDue(sentences[j]) > 0

-----------------------------------------------------------------------------

\* top-level numbers and sub-clause numbers ("14" and "14.2")
ClauseNumbers ==
    {<<n>> : n \in 1..Len(clause_titles)}
    \cup {<<n, m>> : n \in 1..Len(clause_titles), m \in 1..MaxSubClause}

\* lists of 0..MaxObligations records
ObligationLists ==
    {[i \in 1..k |-> [party |-> "Contractor", action |-> "shall",
                      description |-> <<>>, condition |-> None]] :
        k \in 0..MaxObligations}

InitImportance ==
    /\ Idle
    /\ pc = "determine_importance"
    /\ args \in [clause_number : ClauseNumbers, obligations : ObligationLists]
    /\ ret = <<>>

DetermineImportance ==
    /\ pc = "determine_importance"
    /\ ret' = <<determine_importance(args.clause_number, args.obligations)>>
    /\ pc' = "returned"
    /\ UNCHANGED <<args, pvars>>

SpecImportance == InitImportance /\ [][DetermineImportance]_vars

ImportanceRank(level) ==
    CASE level = "low" -> 1
      [] level = "medium" -> 2
      [] level = "high" -> 3

\* C7: a clause whose top-level number is a key clause is high whatever its
\* obligations; any other clause is high for more than 3 obligations, medium
\* for 2 or 3, low for 0 or 1, so that fewer obligations never rank higher.
C7_Importance ==
    pc = "returned" =>
        LET top == Head(args.clause_number)
            count == Len(args.obligations)
        IN  /\ top \in {4, 8, 10, 11, 14, 15, 16, 20} => ret[1] = "high"
            /\ top \notin {4, 8, 10, 11, 14, 15, 16, 20} =>
                 /\ count > 3 => ret[1] = "high"
                 /\ count \in {2, 3} => ret[1] = "medium"
                 /\ count \in {0, 1} => ret[1] = "low"
                 /\ \A fewer \in 0..(count - 1) :
                       ImportanceRank(determine_importance(args.clause_number,
                                          SubSeq(args.obligations, 1, fewer)))
                         <= ImportanceRank(ret[1])

C7_Witness ==
    /\ pc = "returned"
    /\ Head(args.clause_number) \notin key_clauses
    /\ Len(args.obligations) = 3
    /\ ret[1] = "medium"

-----------------------------------------------------------------------------

SummaryChars == {"a", ".", " ", "\n"}

InitSummary ==
    /\ Idle
    /\ pc = "create_summary"
    /\ args \in [text : TextsOver(SummaryChars, MaxSummaryText), max_length : {SummaryMax}]
    /\ ret = <<>>

CreateSummary ==
    /\ pc = "create_summary"
    /\ ret' = create_summary(args.text, args.max_length)
    /\ pc' = "returned"
    /\ UNCHANGED <<args, pvars>>

SpecSummary == InitSummary /\ [][CreateSummary]_vars

\* C8: the summary is never longer than the bound plus the ellipsis marker.
C8_SummaryBound ==
    pc = "returned" => Len(ret) <= args.max_length + Len(Ellipsis)

\* the hard truncation reaches the bound
C8_Witness ==
    /\ pc = "returned"
    /\ Len(strip(args.text)) > args.max_length
    /\ Len(ret) = args.max_length + Len(Ellipsis)

-----------------------------------------------------------------------------

CategoryTokens == {"Prepayment", "Dispute", "Works", "Notice", "the"}

InitCategory ==
    /\ Idle
    /\ pc = "determine_category"
    /\ args \in [title : TextsOver(CategoryTokens, MaxTitle),
                 text : TextsOver(CategoryTokens, MaxCategoryText)]
    /\ ret = <<>>

DetermineCategory ==
    /\ pc = "determine_category"
    /\ ret' = <<determine_category(args.title, args.text)>>
    /\ pc' = "returned"
    /\ UNCHANGED <<args, pvars>>

SpecCategory == InitCategory /\ [][DetermineCategory]_vars

\* the bucket has a word in the title or in the first 500 characters
BucketHit(bucket) ==
    LET window == Prefix(args.text, CategoryWindow)
        seen == UNION ({Substrings(args.title[i]) : i \in 1..Len(args.title)}
                       \cup {Substrings(window[i]) : i \in 1..Len(window)})
    IN  bucket \cap seen # {}

\* C9: the category is the first of financial, legal, technical, procedural
\* whose bucket has a word in the title or in the first 500 characters of the
\* span, and administrative when no bucket has one; financial wins over legal.
C9_CategoryPriority ==
    pc = "returned" =>
        /\ ret[1] \in {"financial", "legal", "technical", "procedural", "administrative"}
        /\ ret[1] = "financial" <=> BucketHit(FinancialWords)
        /\ ret[1] = "legal" <=> ~BucketHit(FinancialWords) /\ BucketHit(LegalWords)
        /\ ret[1] = "technical" <=>
             /\ ~BucketHit(FinancialWords) /\ ~BucketHit(LegalWords)
             /\ BucketHit(TechnicalWords)
        /\ ret[1] = "procedural" <=>
             /\ ~BucketHit(FinancialWords) /\ ~BucketHit(LegalWords)
             /\ ~BucketHit(TechnicalWords) /\ BucketHit(ProceduralWords)
        /\ ret[1] = "administrative" <=>
             /\ ~BucketHit(FinancialWords) /\ ~BucketHit(LegalWords)
             /\ ~BucketHit(TechnicalWords) /\ ~BucketHit(ProceduralWords)

\* a legal word stands before a financial word and the clause is financial
C9_Witness ==
    /\ pc = "returned"
    /\ args.title = <<>>
    /\ Len(args.text) >= 2
    /\ args.text[1] = "Dispute"
    /\ args.text[2] = "Prepayment"
    /\ ret[1] = "financial"

-----------------------------------------------------------------------------
(* extract_obligations on spans that hold the sentence                      *)
(* "The Contractor shall commence the Works."                               *)

CommenceSentence == "The Contractor shall commence the Works"

ScenarioTokens == {CommenceSentence, ".", " ", "Engineer"}

InitScenario ==
    /\ Idle
    /\ pc = "extract_obligations"
    /\ args \in [text : TextsOver(ScenarioTokens, MaxScenarioText)]
    /\ ret = <<>>

SpecScenario == InitScenario /\ [][ExtractObligations]_vars

\* the words before i are closed by a terminator and whitespace, or are
\* whitespace only
SentenceStartsAt(text, i) ==
    \/ \A m \in 1..(i - 1) : text[m] \in Whitespace
    \/ \E t \in 1..(i - 2) :
          /\ text[t] \in Terminators
          /\ \A m \in (t + 1)..(i - 1) : text[m] \in Whitespace

\* the sentence with its full stop stands at i as a sentence of its own,
\* followed by whitespace and further text or by the end of the span
CommenceSentenceAt(text, i) ==
    /\ text[i] = CommenceSentence
    /\ i < Len(text)
    /\ text[i + 1] = "."
    /\ i + 1 = Len(text) \/ text[i + 2] \in Whitespace
    /\ SentenceStartsAt(text, i)

\* C11: a span that holds the sentence "The Contractor shall commence the
\* Works." yields for it exactly one record: party Contractor, action shall,
\* the sentence without its full stop as description, no condition; also
\* when the sentence is the last of the span.
C11_CommenceScenario ==
    (/\ pc = "returned"
     /\ \E i \in 1..Len(args.text) : CommenceSentenceAt(args.text, i)
     /\ \A i \in 1..Len(args.text) :
           args.text[i] = CommenceSentence => CommenceSentenceAt(args.text, i))
    =>
        LET at == {i \in 1..Len(args.text) : CommenceSentenceAt(args.text, i)}
            records == {k \in 1..Len(ret) :
                           /\ ret[k].description # <<>>
                           /\ ret[k].description[1] = CommenceSentence}
        IN  /\ Cardinality(records) = Cardinality(at)
            /\ \A k \in records :
                 ret[k] = [party |-> "Contractor",
                           action |-> "shall",
                           description |-> <<CommenceSentence>>,
                           condition |-> None]

-----------------------------------------------------------------------------
(* Order of the pipeline. *)

\* the clause numbers of a sequence of nodes or index entries
ClauseIds(entries) == [i \in 1..Len(entries) |-> Head(entries[i].clauseId)]

Ascending(numbers) ==
    \A a, b \in 1..Len(numbers) : a < b => numbers[a] < numbers[b]

\* C12: clauses are processed one at a time in the order of the lexicon,
\* whatever the order of their headings in the document: the collection,
\* the clause files as they are written and the entries of the master index
\* are all in ascending lexicon order.
C12_LexiconOrder ==
    /\ Ascending(ClauseIds(clauses))
    /\ pc = "parse" =>
         /\ \A i \in 1..Len(clauses) : Head(clauses[i].clauseId) < idx
         /\ \A n \in 1..(idx - 1) :
               HeadingPresent(n) => \E i \in 1..Len(clauses) : clauses[i].clauseId = <<n>>
    /\ \A k \in 1..Len(log) :
         log[k] # IndexName =>
            /\ k <= Len(clauses)
            /\ log[k] = FileName(clauses[k].clauseId, clauses[k].title)
    /\ pc = "done" =>
         /\ ClauseIds(index_file[1].clauses) = ClauseIds(clauses)
         /\ Ascending(ClauseIds(index_file[1].clauses))

\* both headings are present, the heading of clause 2 before that of clause 1
C12_Witness ==
    /\ pc = "done"
    /\ Len(clauses) = 2
    /\ SearchHeading(content, 2) # -1
    /\ SearchHeading(content, 2) < SearchHeading(content, 1)

-----------------------------------------------------------------------------
(* The branches of create_summary. *)

\* the text holds a blank-line paragraph break
HasParagraphBreak(text) ==
    \E i \in 1..(Len(text) - 1) : text[i] = "\n" /\ text[i + 1] = "\n"

\* the first k sentences, each followed by ". "
RECURSIVE JoinSentences(_, _)
JoinSentences(sentences, k) ==
    IF k = 0 THEN <<>>
    ELSE JoinSentences(sentences, k - 1) \o sentences[k] \o <<".", " ">>

\* the first k sentences fit the bound one after the other
SentencesFit(sentences, k, max_length) ==
    \A j \in 1..k :
        Len(JoinSentences(sentences, j - 1)) + Len(sentences[j]) <= max_length

\* the number of leading sentences that fit the bound
FittingSentences(sentences, max_length) ==
    CHOOSE k \in 0..Len(sentences) :
        /\ SentencesFit(sentences, k, max_length)
        /\ \A m \in (k + 1)..Len(sentences) : ~SentencesFit(sentences, m, max_length)

\* the first paragraph of the span, returned as it is when it fits the bound
FirstParagraphVerbatim ==
    LET first_para == strip(FirstParagraph(strip(args.text)))
    IN  Len(first_para) <= args.max_length => ret = first_para

\* C13 as stated: a span without paragraph break that is longer than the
\* bound is hard-truncated to the bound, not summarised by whole sentences;
\* a first paragraph that fits the bound is returned verbatim.
C13_TruncateWithoutBreak ==
    pc = "returned" =>
        /\ (~HasParagraphBreak(args.text) /\ Len(strip(args.text)) > args.max_length) =>
              ret \in {Prefix(args.text, args.max_length),
                       Prefix(args.text, args.max_length) \o Ellipsis,
                       Prefix(strip(args.text), args.max_length),
                       Prefix(strip(args.text), args.max_length) \o Ellipsis}
        /\ FirstParagraphVerbatim

\* C13 amended: a span without paragraph break that is longer than the bound
\* is summarised as one paragraph: the leading whole sentences that fit the
\* bound, each followed by ". ", stripped; it is hard-truncated to the bound,
\* followed by "...", only when not even its first sentence fits.  A first
\* paragraph that fits the bound is returned verbatim.
C13_SentencesWithoutBreak ==
    pc = "returned" =>
        /\ (~HasParagraphBreak(args.text) /\ Len(strip(args.text)) > args.max_length) =>
              LET span == strip(args.text)
                  sentences == SplitSentences(span)
                  k == FittingSentences(sentences, args.max_length)
              IN  ret = IF k > 0 THEN strip(JoinSentences(sentences, k))
                        ELSE Prefix(span, args.max_length) \o Ellipsis
        /\ FirstParagraphVerbatim

\* a span without paragraph break, longer than the bound, whose first
\* sentence holds a letter and fits: the summary is that sentence, not the
\* truncated span
C13_Witness ==
    /\ pc = "returned"
    /\ ~HasParagraphBreak(args.text)
    /\ Len(strip(args.text)) > args.max_length
    /\ FittingSentences(SplitSentences(strip(args.text)), args.max_length) >= 1
    /\ "a" \in Range(SplitSentences(strip(args.text))[1])
    /\ ret # Prefix(strip(args.text), args.max_length) \o Ellipsis

-----------------------------------------------------------------------------
(* The master index and the clause files of one run. *)

\* C14: the master index is written after all clause files of the run; every
\* clause it lists has its file already written, under a name no other
\* clause has; totalClauses is the number of index entries and the number of
\* distinct clause files written in the run.
C14_IndexMatchesArtifacts ==
    /\ (pc = "write" /\ idx <= Len(clauses)) => IndexName \notin Range(log)
    /\ \A k \in 1..Len(log) :
         log[k] = IndexName =>
            LET index == index_file[1]
                name(i) == FileName(index.clauses[i].clauseId, index.clauses[i].title)
            IN  /\ k = Len(log)
                /\ \A i \in 1..Len(index.clauses) :
                      /\ \E j \in 1..(k - 1) : log[j] = name(i)
                      /\ \E f \in files :
                            f.name = name(i) /\ f.data.clauseId = index.clauses[i].clauseId
                      /\ \A i2 \in 1..Len(index.clauses) : i # i2 => name(i) # name(i2)
                /\ index.totalClauses = Len(index.clauses)
                /\ index.totalClauses = Cardinality(WrittenClauseFiles)
                /\ index.totalClauses = k - 1

\* a run that wrote two clause files and then the index
C14_Witness ==
    /\ pc = "done"
    /\ Len(clauses) = 2
    /\ Len(log) = 3
    /\ log[3] = IndexName

====
